---- MODULE Spec2Model ----
(***************************************************************************)
(* Tool check-out / check-in tracking on a hosted database.                *)
(*                                                                         *)
(* The remote side is two tables, tools and movements.  Every client runs  *)
(* one useMovements hook and one useTools hook.  Each `await supabase...`  *)
(* of the source is one atomic step at the backend; the local code that    *)
(* runs between two awaits is folded into the step that follows it.  A     *)
(* fetch is two steps: the select at the backend (which takes a snapshot   *)
(* or fails) and the arrival of its response (which calls setState).       *)
(* Responses of overlapping fetches arrive in any order.                   *)
(*                                                                         *)
(* Pass-through columns (tool_name, user_name, area, notes, checkout_date) *)
(* are left out of the rows; a tool's name is its id, so `order('name')`   *)
(* is the order of the ids.                                                *)
(***************************************************************************)
EXTENDS Integers, Sequences, FiniteSets

\* ---------------------------------------------------------------- bounds
NClients == 2
MaxTools == 1
MaxStock == 1
MaxQty == 1
MaxMovements == 3
MaxRacingMovements == 2
MaxWatchedMovements == 1
MaxFetches == 2
MaxNotif == 1

Clients == 1..NClients
ToolIds == 1..MaxTools
Stocks == 0..MaxStock
Quantities == 0..MaxQty
MovementIds == 1..MaxMovements

VARIABLES
  configured,   \* the module-level `supabase` is a client (TRUE) or null (FALSE)
  dbTools,      \* remote table tools: id -> row
  dbMovements,  \* remote table movements, in insertion order (id = position)
  call,         \* per client: the mutation it has in progress or last finished
  fetches,      \* per client: the fetches whose response has not arrived yet
  mv,           \* per client: the useMovements hook (state and subscription)
  tl,           \* per client: the useTools hook (state and subscriptions)
  notif,        \* per client and subscription: change notifications in flight
  fresh         \* history: per client and kind of fetch, whether the table is
                \* unchanged since the client's most recently issued fetch of
                \* that kind read it

vars == <<configured, dbTools, dbMovements, call, fetches, mv, tl, notif, fresh>>

\* ------------------------------------------------------------ remote rows
NoError == "null"
NotConfigured == "Supabase not configured"
StockInsuficiente == "Stock insuficiente"
MovimientoNoEncontrado == "Movimiento no encontrado"
BackendError == "backend error"
TypeError == "TypeError"

NoTool == [exists |-> FALSE, stock |-> 0, available_stock |-> 0]
NoToolRead == [found |-> FALSE, available_stock |-> 0]
NoMovementRead ==
  [found |-> FALSE, tool_id |-> 0, status |-> "none", checkin_date |-> FALSE]

\* select('available_stock').eq('id', toolId).single(): data is null when the
\* call fails or no row has that id.
ReadTool(toolId, ok) ==
  IF ok /\ toolId \in ToolIds /\ dbTools[toolId].exists
    THEN [found |-> TRUE, available_stock |-> dbTools[toolId].available_stock]
    ELSE NoToolRead

\* select('*').eq('id', movementId).single()
ReadMovement(movementId, ok) ==
  IF ok /\ movementId \in 1..Len(dbMovements)
    THEN [found |-> TRUE, tool_id |-> dbMovements[movementId].tool_id,
          status |-> dbMovements[movementId].status,
          checkin_date |-> dbMovements[movementId].checkin_date]
    ELSE NoMovementRead

RECURSIVE Reverse(_)
Reverse(s) ==
  IF s = << >> THEN << >> ELSE Append(Reverse(Tail(s)), Head(s))

RECURSIVE SelectActive(_)
SelectActive(s) ==
  IF s = << >> THEN << >>
  ELSE IF Head(s).status = "active"
    THEN <<Head(s)>> \o SelectActive(Tail(s))
    ELSE SelectActive(Tail(s))

RECURSIVE ToolRowsFrom(_)
ToolRowsFrom(i) ==
  IF i > MaxTools THEN << >>
  ELSE IF dbTools[i].exists
    THEN <<[id |-> i, stock |-> dbTools[i].stock,
            available_stock |-> dbTools[i].available_stock]>> \o ToolRowsFrom(i + 1)
    ELSE ToolRowsFrom(i + 1)

\* from('tools').select('*').order('name')
SelectTools == ToolRowsFrom(1)

\* from('movements').select('*').order('created_at', {ascending: false})
SelectMovements == Reverse(dbMovements)

ToUsage(m) == [tool_id |-> m.tool_id, quantity |-> m.quantity, movement_id |-> m.id]

\* from('movements').select('*').eq('status','active').order('checkout_date', desc),
\* mapped to ToolUsage records
SelectToolsInUse ==
  LET act == SelectActive(Reverse(dbMovements))
  IN  [i \in 1..Len(act) |-> ToUsage(act[i])]

\* ------------------------------------------------------------- the hooks
\* useState initial values, before the effect has run.
MvRendered == [status |-> "rendered", movements |-> << >>, loading |-> TRUE,
               subscribed |-> FALSE]
TlRendered == [status |-> "rendered", tools |-> << >>, toolsInUse |-> << >>,
               loading |-> TRUE, loadPending |-> 0,
               subTools |-> FALSE, subMovements |-> FALSE]

Idle == [op |-> "none", pc |-> "idle", id |-> 0, quantity |-> 0,
         tool |-> NoToolRead, movement |-> NoMovementRead,
         data |-> 0, error |-> NoError, raised |-> FALSE, fetched |-> 0]

\* A returned call keeps its result; its arguments and locals are gone.
Return(k, data, error) ==
  [Idle EXCEPT !.op = k.op, !.pc = "done", !.data = data, !.error = error,
               !.raised = k.raised, !.fetched = k.fetched]

\* catch (error) { return { data: null, error } }
Fail(k, error) == Return(k, 0, error)

\* A fetch in flight: "sent" until the backend has run the select, then
\* "replied" (ok, rows) until the response arrives at the hook.  awaited says
\* who waits for it: the client's mutation ("call"), loadData's Promise.all
\* ("load") or nobody ("none").  latest (history) marks the client's most
\* recently issued fetch of its kind.
NewFetch(kind, awaited) ==
  [kind |-> kind, phase |-> "sent", ok |-> FALSE, rows |-> << >>,
   awaited |-> awaited, latest |-> TRUE]

Kinds == {"movements", "tools", "toolsInUse"}

\* The lists that mirror a whole table: movements and tools.
Lists == {"movements", "tools"}

TableOfKind(kind) == IF kind = "tools" THEN "tools" ELSE "movements"

KindsOf(new) == {new[j].kind : j \in 1..Len(new)}

\* The fetches in flight once `new` have been issued after `old`.
Issued(old, new) ==
  [i \in 1..Len(old) |->
     IF old[i].kind \in KindsOf(new) THEN [old[i] EXCEPT !.latest = FALSE] ELSE old[i]]
  \o new

\* fresh after `table` has been written ("none": no table) and client c has
\* issued the fetches `new`.
AfterWrite(f, table) ==
  [d \in Clients |-> [kind \in Lists |-> f[d][kind] /\ TableOfKind(kind) # table]]

AfterIssue(f, c, new) ==
  [f EXCEPT ![c] = [kind \in Lists |-> f[c][kind] /\ kind \notin KindsOf(new)]]

Tracked(c, table, new) == AfterIssue(AfterWrite(fresh, table), c, new)

Room(c, n) == Len(fetches[c]) + n <= MaxFetches

SelectRows(kind) ==
  CASE kind = "movements" -> SelectMovements
    [] kind = "tools" -> SelectTools
    [] kind = "toolsInUse" -> SelectToolsInUse

RemoveAt(s, i) == SubSeq(s, 1, i - 1) \o SubSeq(s, i + 1, Len(s))

\* The backend runs the select of fetch i of client c, or fails it.
FetchServe(c, i, ok) ==
  /\ i \in 1..Len(fetches[c])
  /\ fetches[c][i].phase = "sent"
  /\ fetches' = [fetches EXCEPT ![c][i] =
       [@ EXCEPT !.phase = "replied", !.ok = ok,
                 !.rows = IF ok THEN SelectRows(fetches[c][i].kind) ELSE << >>]]
  /\ fresh' = IF ok /\ fetches[c][i].latest /\ fetches[c][i].kind \in Lists
                THEN [fresh EXCEPT ![c][fetches[c][i].kind] = TRUE]
                ELSE fresh
  /\ UNCHANGED <<configured, dbTools, dbMovements, call, mv, tl, notif>>

\* catch of fetchMovements: console.error, setMovements([])
MovementsAfterFailedFetch(old) == << >>
\* Mutant of ListAfterFailedFetch: the catch clears the list.
ListClearedAfterFailedFetch(old) == << >>

\* catch of fetchTools and fetchToolsInUse: console.error only
ListAfterFailedFetch(old) == old

\* The state of useMovements after the response of a fetchMovements: lines
\* 22-29.  setState of an unmounted component does nothing.
MvAfterFetch(h, f) ==
  IF h.status = "unmounted" THEN h
  ELSE [h EXCEPT !.movements = IF f.ok THEN f.rows
                               ELSE MovementsAfterFailedFetch(@),
                 !.loading = FALSE]

\* The state of useTools after the response of a fetchTools or a
\* fetchToolsInUse, and after loadData's Promise.all once both have ended.
TlAfterFetch(h, f) ==
  LET left == IF f.awaited = "load" THEN h.loadPending - 1 ELSE h.loadPending
      g == [h EXCEPT !.loadPending = left]
  IN  IF h.status = "unmounted" THEN g
      ELSE [g EXCEPT
             !.tools = IF f.kind = "tools"
                         THEN (IF f.ok THEN f.rows ELSE ListAfterFailedFetch(@))
                         ELSE @,
             !.toolsInUse = IF f.kind = "toolsInUse"
                         THEN (IF f.ok THEN f.rows ELSE ListAfterFailedFetch(@))
                         ELSE @,
             !.loading = IF f.awaited = "load" /\ left = 0 THEN FALSE ELSE @]

\* A mutation whose awaited re-fetch has ended returns {data, error: null}.
CallAfterFetch(k, f) ==
  IF f.awaited = "call"
    THEN Return([k EXCEPT !.fetched = @ + 1], k.data, NoError)
    ELSE k

\* The response of fetch i of client c arrives.
FetchArrive(c, i) ==
  /\ i \in 1..Len(fetches[c])
  /\ fetches[c][i].phase = "replied"
  /\ LET f == fetches[c][i]
     IN  /\ fetches' = [fetches EXCEPT ![c] = RemoveAt(@, i)]
         /\ mv' = [mv EXCEPT ![c] = IF f.kind = "movements" THEN MvAfterFetch(@, f) ELSE @]
         /\ tl' = [tl EXCEPT ![c] = IF f.kind # "movements" THEN TlAfterFetch(@, f) ELSE @]
         /\ call' = [call EXCEPT ![c] = CallAfterFetch(@, f)]
  /\ UNCHANGED <<configured, dbTools, dbMovements, notif, fresh>>

\* ------------------------------------------------- change notifications
\* The backend sends one notification per committed change to every channel
\* subscribed to the changed table.
Subs == {"mv", "tlTools", "tlMov"}

Subscribed(c, sub) ==
  CASE sub = "mv" -> mv[c].subscribed
    [] sub = "tlTools" -> tl[c].subTools
    [] sub = "tlMov" -> tl[c].subMovements

TableOf(sub) == IF sub = "tlTools" THEN "tools" ELSE "movements"

CanPublish(table) ==
  \A c \in Clients : \A sub \in Subs :
    (TableOf(sub) = table /\ Subscribed(c, sub)) => notif[c][sub] < MaxNotif

Published(table) ==
  [c \in Clients |-> [sub \in Subs |->
     IF TableOf(sub) = table /\ Subscribed(c, sub)
       THEN notif[c][sub] + 1 ELSE notif[c][sub]]]

\* What a step of client c does besides its own assignments: it has changed
\* `table` ("none": no table) and issued the fetches `new`.
Effects(c, table, new) ==
  /\ table # "none" => CanPublish(table)
  /\ Room(c, Len(new))
  /\ notif' = IF table # "none" THEN Published(table) ELSE notif
  /\ fetches' = IF new = << >> THEN fetches
                ELSE [fetches EXCEPT ![c] = Issued(@, new)]
  /\ fresh' = Tracked(c, table, new)

\* Mutant of Refetch: deleteTool returns without calling fetchTools.
RefetchNotAfterDelete(op) ==
  IF op \in {"createCheckout", "createCheckin"}
    THEN <<NewFetch("movements", "call")>>
    ELSE IF op = "deleteTool" THEN << >> ELSE <<NewFetch("tools", "call")>>

\* The re-fetch a mutation awaits after its writes: fetchMovements in
\* useMovements (lines 80, 145), fetchTools in useTools (lines 59, 76, 91).
Refetch(op) ==
  IF op \in {"createCheckout", "createCheckin"}
    THEN <<NewFetch("movements", "call")>>
    ELSE <<NewFetch("tools", "call")>>

\* ---------------------------------------------------------- useMovements
Free(c) == call[c].pc \in {"idle", "done"}

Begin(op, id, quantity) == [Idle EXCEPT !.op = op, !.id = id, !.quantity = quantity]

\* Mutant of InsufficientStock: the stock comparison is missing.
InsufficientStockUnchecked(tool, quantity) == ~tool.found

\* line 52: !tool || tool.available_stock < quantity
InsufficientStock(tool, quantity) ==
  ~tool.found \/ tool.available_stock < quantity

\* Mutant of StockAfterCheckout: the stock read is written back unchanged.
StockAfterCheckoutKept(tool, quantity) == tool.available_stock

\* line 77: available_stock: tool.available_stock - quantity
StockAfterCheckout(tool, quantity) == tool.available_stock - quantity

\* Mutant of StockAfterCheckin: the returned quantity is subtracted.
StockAfterCheckinSubtracts(tool, returnQuantity) == tool.available_stock - returnQuantity

\* line 141: available_stock: tool.available_stock + returnQuantity
StockAfterCheckin(tool, returnQuantity) == tool.available_stock + returnQuantity

\* lines 58-68: the row createCheckout inserts
CheckoutRow(id, toolId, quantity) ==
  [id |-> id, tool_id |-> toolId, type |-> "checkout", quantity |-> quantity,
   status |-> "active", checkin_date |-> FALSE]

\* lines 114-125: the row createCheckin inserts
CheckinRow(id, toolId, returnQuantity) ==
  [id |-> id, tool_id |-> toolId, type |-> "checkin", quantity |-> returnQuantity,
   status |-> "returned", checkin_date |-> TRUE]

\* lines 105-108: the update of the original movement
Returned(row) == [row EXCEPT !.status = "returned", !.checkin_date = TRUE]

\* createCheckout, lines 40-54: the null check, the select of the tool's
\* available_stock and the stock check.
CoRead(c, toolId, quantity, ok) ==
  /\ Free(c)
  /\ LET k == Begin("createCheckout", toolId, quantity)
         tool == ReadTool(toolId, ok)
     IN  call' = [call EXCEPT ![c] =
           IF ~configured THEN Fail(k, NotConfigured)
           ELSE IF InsufficientStock(tool, quantity)
             THEN Fail([k EXCEPT !.raised = TRUE], StockInsuficiente)
             ELSE [k EXCEPT !.pc = "co_insert", !.tool = tool]]
  /\ UNCHANGED <<configured, dbTools, dbMovements, fetches, mv, tl, notif, fresh>>

\* createCheckout, lines 56-72: the insert of the movement.
CoInsert(c, ok) ==
  /\ call[c].pc = "co_insert"
  /\ IF ok
       THEN /\ Len(dbMovements) < MaxMovements
            /\ dbMovements' = Append(dbMovements,
                 CheckoutRow(Len(dbMovements) + 1, call[c].id, call[c].quantity))
            /\ call' = [call EXCEPT ![c].pc = "co_update",
                                    ![c].data = Len(dbMovements) + 1]
            /\ Effects(c, "movements", << >>)
       ELSE /\ call' = [call EXCEPT ![c] = Fail([@ EXCEPT !.raised = TRUE], BackendError)]
            /\ UNCHANGED <<dbMovements, fetches, notif, fresh>>
  /\ UNCHANGED <<configured, dbTools, mv, tl>>

\* createCheckout, lines 74-80: the update of available_stock, whose error is
\* not read, and the call of fetchMovements.
CoUpdate(c, ok) ==
  /\ call[c].pc = "co_update"
  /\ LET id == call[c].id
         hit == ok /\ dbTools[id].exists
     IN  /\ dbTools' = IF hit
              THEN [dbTools EXCEPT ![id].available_stock =
                      StockAfterCheckout(call[c].tool, call[c].quantity)]
              ELSE dbTools
         /\ Effects(c, IF hit THEN "tools" ELSE "none", Refetch(call[c].op))
  /\ call' = [call EXCEPT ![c].pc = "await", ![c].raised = @ \/ ~ok]
  /\ UNCHANGED <<configured, dbMovements, mv, tl>>

\* createCheckin, lines 88-100: the null check and the select of the movement.
CiRead(c, movementId, returnQuantity, ok) ==
  /\ Free(c)
  /\ LET k == Begin("createCheckin", movementId, returnQuantity)
         movement == ReadMovement(movementId, ok)
     IN  call' = [call EXCEPT ![c] =
           IF ~configured THEN Fail(k, NotConfigured)
           ELSE IF ~movement.found
             THEN Fail([k EXCEPT !.raised = TRUE], MovimientoNoEncontrado)
             ELSE [k EXCEPT !.pc = "ci_mark", !.movement = movement]]
  /\ UNCHANGED <<configured, dbTools, dbMovements, fetches, mv, tl, notif, fresh>>

\* createCheckin, lines 102-109: the update of the original movement, whose
\* error is not read.
CiMark(c, ok) ==
  /\ call[c].pc = "ci_mark"
  /\ IF ok
       THEN /\ dbMovements' = [dbMovements EXCEPT ![call[c].id] = Returned(@)]
            /\ Effects(c, "movements", << >>)
       ELSE UNCHANGED <<dbMovements, fetches, notif, fresh>>
  /\ call' = [call EXCEPT ![c].pc = "ci_insert", ![c].raised = @ \/ ~ok]
  /\ UNCHANGED <<configured, dbTools, mv, tl>>

\* createCheckin, lines 111-129: the insert of the check-in movement.
CiInsert(c, ok) ==
  /\ call[c].pc = "ci_insert"
  /\ IF ok
       THEN /\ Len(dbMovements) < MaxMovements
            /\ dbMovements' = Append(dbMovements,
                 CheckinRow(Len(dbMovements) + 1, call[c].movement.tool_id,
                            call[c].quantity))
            /\ call' = [call EXCEPT ![c].pc = "ci_readtool",
                                    ![c].data = Len(dbMovements) + 1]
            /\ Effects(c, "movements", << >>)
       ELSE /\ call' = [call EXCEPT ![c] = Fail([@ EXCEPT !.raised = TRUE], BackendError)]
            /\ UNCHANGED <<dbMovements, fetches, notif, fresh>>
  /\ UNCHANGED <<configured, dbTools, mv, tl>>

\* createCheckin, lines 131-138 and 145: the select of the tool's
\* available_stock; without a row the update is skipped and fetchMovements
\* is called.
CiReadTool(c, ok) ==
  /\ call[c].pc = "ci_readtool"
  /\ LET tool == ReadTool(call[c].movement.tool_id, ok)
     IN  IF tool.found
           THEN /\ call' = [call EXCEPT ![c].pc = "ci_update", ![c].tool = tool]
                /\ UNCHANGED <<fetches, notif, fresh>>
           ELSE /\ call' = [call EXCEPT ![c].pc = "await", ![c].raised = TRUE]
                /\ Effects(c, "none", Refetch(call[c].op))
  /\ UNCHANGED <<configured, dbTools, dbMovements, mv, tl>>

\* createCheckin, lines 139-145: the update of available_stock, whose error
\* is not read, and the call of fetchMovements.
CiUpdate(c, ok) ==
  /\ call[c].pc = "ci_update"
  /\ LET id == call[c].movement.tool_id
         hit == ok /\ dbTools[id].exists
     IN  /\ dbTools' = IF hit
              THEN [dbTools EXCEPT ![id].available_stock =
                      StockAfterCheckin(call[c].tool, call[c].quantity)]
              ELSE dbTools
         /\ Effects(c, IF hit THEN "tools" ELSE "none", Refetch(call[c].op))
  /\ call' = [call EXCEPT ![c].pc = "await", ![c].raised = @ \/ ~ok]
  /\ UNCHANGED <<configured, dbMovements, mv, tl>>

\* -------------------------------------------------------------- useTools
\* line 54: { ...tool, available_stock: tool.stock }
NewTool(stock) == [exists |-> TRUE, stock |-> stock, available_stock |-> stock]

FreeToolIds == {i \in ToolIds : ~dbTools[i].exists}

\* updateTool's `updates`: one column and its new value.
Updates == [column : {"stock", "available_stock"}, value : Stocks]

Updated(row, updates) ==
  IF updates.column = "stock"
    THEN [row EXCEPT !.stock = updates.value]
    ELSE [row EXCEPT !.available_stock = updates.value]

\* A useTools mutation that ends in its catch.  With supabase null,
\* supabase.from throws a TypeError inside the try.
ToolCallFails(c, k) ==
  /\ call' = [call EXCEPT ![c] =
       Fail([k EXCEPT !.raised = TRUE], IF configured THEN BackendError ELSE TypeError)]
  /\ UNCHANGED <<dbTools, fetches, notif, fresh>>

\* addTool, lines 50-64.
AddTool(c, stock, ok) ==
  /\ Free(c)
  /\ LET k == Begin("addTool", 0, stock)
     IN  IF configured /\ ok
           THEN /\ FreeToolIds # {}
                /\ LET id == CHOOSE i \in FreeToolIds : \A j \in FreeToolIds : i <= j
                   IN  /\ dbTools' = [dbTools EXCEPT ![id] = NewTool(stock)]
                       /\ call' = [call EXCEPT ![c] = [k EXCEPT !.pc = "await", !.data = id]]
                /\ Effects(c, "tools", Refetch(k.op))
           ELSE ToolCallFails(c, k)
  /\ UNCHANGED <<configured, dbMovements, mv, tl>>

\* updateTool, lines 66-81.  .single() is an error when no row has the id.
UpdateTool(c, id, updates, ok) ==
  /\ Free(c)
  /\ LET k == Begin("updateTool", id, updates.value)
     IN  IF configured /\ ok /\ dbTools[id].exists
           THEN /\ dbTools' = [dbTools EXCEPT ![id] = Updated(@, updates)]
                /\ call' = [call EXCEPT ![c] = [k EXCEPT !.pc = "await", !.data = id]]
                /\ Effects(c, "tools", Refetch(k.op))
           ELSE ToolCallFails(c, k)
  /\ UNCHANGED <<configured, dbMovements, mv, tl>>

\* deleteTool, lines 83-96.  Deleting no row is not an error.
DeleteTool(c, id, ok) ==
  /\ Free(c)
  /\ LET k == Begin("deleteTool", id, 0)
     IN  IF configured /\ ok
           THEN /\ dbTools' = [dbTools EXCEPT ![id] = NoTool]
                /\ call' = [call EXCEPT ![c] = [k EXCEPT !.pc = "await"]]
                /\ Effects(c, IF dbTools[id].exists THEN "tools" ELSE "none",
                           Refetch(k.op))
           ELSE ToolCallFails(c, k)
  /\ UNCHANGED <<configured, dbMovements, mv, tl>>

\* ------------------------------------------------------------------ auth
\* signIn, lines 11-20: the result of signInWithPassword is passed through.
SignIn(c, ok) ==
  /\ Free(c)
  /\ LET k == Begin("signIn", 0, 0)
     IN  call' = [call EXCEPT ![c] =
           IF ~configured THEN Fail(k, NotConfigured)
           ELSE IF ok THEN Return(k, 1, NoError)
           ELSE Fail([k EXCEPT !.raised = TRUE], BackendError)]
  /\ UNCHANGED <<configured, dbTools, dbMovements, fetches, mv, tl, notif, fresh>>

\* signOut, lines 22-28.
SignOut(c, ok) ==
  /\ Free(c)
  /\ LET k == Begin("signOut", 0, 0)
     IN  call' = [call EXCEPT ![c] =
           IF ~configured THEN Fail(k, NotConfigured)
           ELSE IF ok THEN Return(k, 0, NoError)
           ELSE Fail([k EXCEPT !.raised = TRUE], BackendError)]
  /\ UNCHANGED <<configured, dbTools, dbMovements, fetches, mv, tl, notif, fresh>>

\* ------------------------------------------------- effects and callbacks
\* Mutant of MvMount: the two null checks are missing.
MvMountUnguarded(c) ==
  /\ mv[c].status = "rendered"
  /\ mv' = [mv EXCEPT ![c].status = "mounted", ![c].subscribed = TRUE]
  /\ Effects(c, "none", <<NewFetch("movements", "none")>>)
  /\ UNCHANGED <<configured, dbTools, dbMovements, call, tl>>

\* useMovements' effect, lines 152-166: fetchMovements (with supabase null:
\* setMovements([]), setLoading(false)), then the subscription unless
\* supabase is null.
MvMount(c) ==
  /\ mv[c].status = "rendered"
  /\ IF configured
       THEN /\ mv' = [mv EXCEPT ![c].status = "mounted", ![c].subscribed = TRUE]
            /\ Effects(c, "none", <<NewFetch("movements", "none")>>)
       ELSE /\ mv' = [mv EXCEPT ![c].status = "mounted", ![c].movements = << >>,
                                ![c].loading = FALSE]
            /\ UNCHANGED <<fetches, notif, fresh>>
  /\ UNCHANGED <<configured, dbTools, dbMovements, call, tl>>

\* useMovements' cleanup, lines 167-169.
MvUnmount(c) ==
  /\ mv[c].status = "mounted"
  /\ mv' = [mv EXCEPT ![c].status = "unmounted", ![c].subscribed = FALSE]
  /\ UNCHANGED <<configured, dbTools, dbMovements, call, fetches, tl, notif, fresh>>

\* loadData, lines 99-103: Promise.all([fetchTools(), fetchToolsInUse()])
LoadData == <<NewFetch("tools", "load"), NewFetch("toolsInUse", "load")>>

\* useTools' effect, lines 98-121: loadData, then the two subscriptions.  With
\* supabase null, supabase.channel throws out of the effect.
TlMount(c) ==
  /\ tl[c].status = "rendered"
  /\ IF configured
       THEN /\ tl' = [tl EXCEPT ![c].status = "mounted", ![c].loading = TRUE,
                                ![c].loadPending = 2,
                                ![c].subTools = TRUE, ![c].subMovements = TRUE]
            /\ Effects(c, "none", LoadData)
       ELSE /\ tl' = [tl EXCEPT ![c].status = "crashed"]
            /\ UNCHANGED <<fetches, notif, fresh>>
  /\ UNCHANGED <<configured, dbTools, dbMovements, call, mv>>

\* useTools' cleanup, lines 123-126.
TlUnmount(c) ==
  /\ tl[c].status = "mounted"
  /\ tl' = [tl EXCEPT ![c].status = "unmounted", ![c].subTools = FALSE,
                      ![c].subMovements = FALSE]
  /\ UNCHANGED <<configured, dbTools, dbMovements, call, fetches, mv, notif, fresh>>

\* Mutant of CallbackFetches: the callback of the tools channel calls
\* fetchToolsInUse as well.
CallbackFetchesBoth(sub) ==
  IF sub = "mv" THEN <<NewFetch("movements", "none")>>
  ELSE <<NewFetch("toolsInUse", "none"), NewFetch("tools", "none")>>

\* The fetches a subscription's callback starts: useMovements line 163,
\* useTools lines 111 and 118-119.
CallbackFetches(sub) ==
  CASE sub = "mv" -> <<NewFetch("movements", "none")>>
    [] sub = "tlTools" -> <<NewFetch("tools", "none")>>
    [] sub = "tlMov" -> <<NewFetch("toolsInUse", "none"), NewFetch("tools", "none")>>

\* A change notification arrives at a channel: its callback runs if the
\* channel is still subscribed.
Deliver(c, sub) ==
  /\ notif[c][sub] > 0
  /\ LET new == IF Subscribed(c, sub) THEN CallbackFetches(sub) ELSE << >>
     IN  /\ Room(c, Len(new))
         /\ notif' = [notif EXCEPT ![c][sub] = @ - 1]
         /\ fetches' = [fetches EXCEPT ![c] = Issued(@, new)]
         /\ fresh' = Tracked(c, "none", new)
  /\ UNCHANGED <<configured, dbTools, dbMovements, call, mv, tl>>

\* -------------------------------------------------------- specifications
InitWith(cfg, tools) ==
  /\ configured = cfg
  /\ dbTools = tools
  /\ dbMovements = << >>
  /\ call = [c \in Clients |-> Idle]
  /\ fetches = [c \in Clients |-> << >>]
  /\ mv = [c \in Clients |-> MvRendered]
  /\ tl = [c \in Clients |-> TlRendered]
  /\ notif = [c \in Clients |-> [sub \in Subs |-> 0]]
  /\ fresh = [c \in Clients |-> [kind \in Lists |-> FALSE]]

NoTools == [i \in ToolIds |-> NoTool]

\* The tools table after addTool has run for every id.
AddedTools == {[i \in ToolIds |-> NewTool(stock[i])] : stock \in [ToolIds -> Stocks]}

Init == \E cfg \in BOOLEAN : InitWith(cfg, NoTools)

Network(C) ==
  \E c \in C :
    \/ \E i \in 1..MaxFetches, ok \in BOOLEAN : FetchServe(c, i, ok)
    \/ \E i \in 1..MaxFetches : FetchArrive(c, i)

Checkout(C) ==
  \E c \in C, ok \in BOOLEAN :
    \/ \E toolId \in ToolIds, quantity \in Quantities : CoRead(c, toolId, quantity, ok)
    \/ CoInsert(c, ok)
    \/ CoUpdate(c, ok)

Checkin(C) ==
  \E c \in C, ok \in BOOLEAN :
    \/ \E movementId \in MovementIds, returnQuantity \in Quantities :
         CiRead(c, movementId, returnQuantity, ok)
    \/ CiMark(c, ok)
    \/ CiInsert(c, ok)
    \/ CiReadTool(c, ok)
    \/ CiUpdate(c, ok)

Tools(C) ==
  \E c \in C, ok \in BOOLEAN :
    \/ \E stock \in Stocks : AddTool(c, stock, ok)
    \/ \E id \in ToolIds, updates \in Updates : UpdateTool(c, id, updates, ok)
    \/ \E id \in ToolIds : DeleteTool(c, id, ok)

Auth(C) ==
  \E c \in C, ok \in BOOLEAN : SignIn(c, ok) \/ SignOut(c, ok)

Lifecycle(C) ==
  \E c \in C :
    \/ MvMount(c)
    \/ MvUnmount(c)
    \/ TlMount(c)
    \/ TlUnmount(c)
    \/ \E sub \in Subs : Deliver(c, sub)

\* Every client may do everything.
Next ==
  \/ Network(Clients)
  \/ Checkout(Clients)
  \/ Checkin(Clients)
  \/ Tools(Clients)
  \/ Auth(Clients)
  \/ Lifecycle(Clients)

Spec == Init /\ [][Next]_vars

\* Check-outs and check-ins of all clients, interleaved at every await, on
\* tools that addTool has created.
NextStock ==
  /\ Network(Clients) \/ Checkout(Clients) \/ Checkin(Clients)
  /\ Len(dbMovements') <= MaxRacingMovements

SpecStock == (\E tools \in AddedTools : InitWith(TRUE, tools)) /\ [][NextStock]_vars

\* All five mutations with failing backend calls: the tool mutations of one
\* client beside the check-outs and check-ins of another.
NextRefetch ==
  /\ Network(Clients) \/ Tools({2}) \/ Checkout({1}) \/ Checkin({1})
  /\ Len(dbMovements') <= MaxRacingMovements

SpecRefetch == InitWith(TRUE, NoTools) /\ [][NextRefetch]_vars

\* Sequential use without failures: a client acts only while every other
\* client has no call and no fetch in progress, every backend call succeeds,
\* tools come from addTool only, and createCheckin is called on active
\* check-out movements with returnQuantity equal to their quantity.
Quiet(c) == Free(c) /\ fetches[c] = << >>

ActiveCheckoutIds ==
  {i \in 1..Len(dbMovements) :
     dbMovements[i].type = "checkout" /\ dbMovements[i].status = "active"}

NextSeq ==
  \E c \in Clients :
    /\ \A d \in Clients \ {c} : Quiet(d)
    /\ \/ \E stock \in Stocks : AddTool(c, stock, TRUE)
       \/ \E toolId \in ToolIds, quantity \in Quantities : CoRead(c, toolId, quantity, TRUE)
       \/ CoInsert(c, TRUE)
       \/ CoUpdate(c, TRUE)
       \/ \E movementId \in ActiveCheckoutIds :
            CiRead(c, movementId, dbMovements[movementId].quantity, TRUE)
       \/ CiMark(c, TRUE)
       \/ CiInsert(c, TRUE)
       \/ CiReadTool(c, TRUE)
       \/ CiUpdate(c, TRUE)
       \/ \E i \in 1..MaxFetches : FetchServe(c, i, TRUE)
       \/ \E i \in 1..MaxFetches : FetchArrive(c, i)

SpecSeq == InitWith(TRUE, NoTools) /\ [][NextSeq]_vars

\* returnQuantity is between 0 and the quantity of the movement named.
InRange(movementId, returnQuantity) ==
  movementId \in 1..Len(dbMovements) => returnQuantity <= dbMovements[movementId].quantity

\* Sequential use of addTool, createCheckout and createCheckin by the clients
\* in C: a client acts only while every other client has no call and no fetch
\* in progress.
\* createCheckin is called with any movement id, also that of a movement
\* already returned or of a check-in movement.  Outcomes are the outcomes
\* the backend calls may have (TRUE: success).
Sequential(C, Outcomes) ==
  \E c \in C, ok \in Outcomes :
    /\ \A d \in Clients \ {c} : Quiet(d)
    /\ \/ \E stock \in Stocks : AddTool(c, stock, ok)
       \/ \E toolId \in ToolIds, quantity \in Quantities : CoRead(c, toolId, quantity, ok)
       \/ CoInsert(c, ok)
       \/ CoUpdate(c, ok)
       \/ \E movementId \in MovementIds, returnQuantity \in Quantities :
            /\ InRange(movementId, returnQuantity)
            /\ CiRead(c, movementId, returnQuantity, ok)
       \/ CiMark(c, ok)
       \/ CiInsert(c, ok)
       \/ CiReadTool(c, ok)
       \/ CiUpdate(c, ok)
       \/ \E i \in 1..MaxFetches : FetchServe(c, i, ok)
       \/ \E i \in 1..MaxFetches : FetchArrive(c, i)

\* Sequential use in which every backend call succeeds.
NextReturn == Sequential(Clients, {TRUE})

SpecReturn == InitWith(TRUE, NoTools) /\ [][NextReturn]_vars

\* The calls of one client, one after the other, in which any backend call
\* may fail.
NextCalls == Sequential({1}, BOOLEAN)

SpecCalls == InitWith(TRUE, NoTools) /\ [][NextCalls]_vars

\* The backend client is not configured.  These are the steps that can be
\* taken then: no call gets past its first step and no fetch is issued.
NextNull ==
  \E c \in Clients, ok \in BOOLEAN :
    \/ \E toolId \in ToolIds, quantity \in Quantities : CoRead(c, toolId, quantity, ok)
    \/ \E movementId \in MovementIds, returnQuantity \in Quantities :
         CiRead(c, movementId, returnQuantity, ok)
    \/ \E stock \in Stocks : AddTool(c, stock, ok)
    \/ \E id \in ToolIds, updates \in Updates : UpdateTool(c, id, updates, ok)
    \/ \E id \in ToolIds : DeleteTool(c, id, ok)
    \/ SignIn(c, ok)
    \/ SignOut(c, ok)
    \/ MvMount(c)
    \/ MvUnmount(c)
    \/ TlMount(c)

SpecNull == InitWith(FALSE, NoTools) /\ [][NextNull]_vars

\* A client outside the model commits a change: a tool is added, replaced or
\* deleted, or a check-out movement is inserted.  The backend notifies the
\* channels subscribed to the table (event '*').
RemoteChange(table) ==
  /\ CanPublish(table)
  /\ IF table = "tools"
       THEN /\ \E id \in ToolIds, row \in {NewTool(stock) : stock \in Stocks} \cup {NoTool} :
                 /\ row # dbTools[id]
                 /\ dbTools' = [dbTools EXCEPT ![id] = row]
            /\ UNCHANGED dbMovements
       ELSE /\ Len(dbMovements) < MaxWatchedMovements
            /\ \E id \in ToolIds, quantity \in Quantities :
                 dbMovements' = Append(dbMovements,
                                       CheckoutRow(Len(dbMovements) + 1, id, quantity))
            /\ UNCHANGED dbTools
  /\ notif' = Published(table)
  /\ fresh' = AfterWrite(fresh, table)
  /\ UNCHANGED <<configured, call, fetches, mv, tl>>

\* One client's two hooks from mount to unmount, with fetches that fail and
\* responses that arrive in any order, while the tables change remotely.
NextHooks ==
  \/ Lifecycle({1})
  \/ Network({1})
  \/ RemoteChange("tools")
  \/ RemoteChange("movements")

SpecHooks == InitWith(TRUE, NoTools) /\ [][NextHooks]_vars

\* ----------------------------------------------------------------- claims
\* A step in which client c's createCheckout runs its select and stock check.
CoReadStep(c) ==
  /\ Free(c)
  /\ call'[c] # call[c]
  /\ call'[c].op = "createCheckout"

\* C1: createCheckout is rejected when the tool row cannot be read or the
\* available_stock it reads is less than quantity.  The call goes on to its
\* insert only with a row it has read, holding the table's available_stock,
\* which is at least quantity; otherwise it returns data null and the error
\* 'Stock insuficiente' in that same step, which changes neither table.
C1_CheckoutRejected ==
  [][\A c \in Clients : CoReadStep(c) =>
       \/ /\ call'[c].pc = "co_insert"
          /\ call'[c].tool.found
          /\ dbTools[call'[c].id].exists
          /\ call'[c].tool.available_stock = dbTools[call'[c].id].available_stock
          /\ call'[c].tool.available_stock >= call'[c].quantity
       \/ /\ call'[c].pc = "done"
          /\ call'[c].data = 0
          /\ call'[c].error = StockInsuficiente
          /\ dbMovements' = dbMovements
          /\ dbTools' = dbTools]_vars

\* A createCheckout has been rejected although the tool exists: the stock it
\* read was too low, or the read failed.
C1_Witness ==
  \E c \in Clients :
    /\ call[c].op = "createCheckout"
    /\ call[c].pc = "done"
    /\ call[c].error = StockInsuficiente
    /\ \E id \in ToolIds : dbTools[id].exists /\ dbTools[id].available_stock = 0

\* C2: every tool's available_stock is >= 0 in every reachable state, under
\* any interleaving of the clients' check-outs and check-ins.
C2_StockNonNegative ==
  \A id \in ToolIds : dbTools[id].exists => dbTools[id].available_stock >= 0

\* A check-out has taken the last unit of a tool and a check-in has been
\* recorded: the stock has moved down to 0 and been written by a check-in.
C2_Witness ==
  \E id \in ToolIds :
    /\ dbTools[id].exists
    /\ dbTools[id].stock > 0
    /\ dbTools[id].available_stock = 0
    /\ \E i \in 1..Len(dbMovements) :
         dbMovements[i].tool_id = id /\ dbMovements[i].type = "checkin"

RECURSIVE SumQuantity(_)
SumQuantity(rows) ==
  IF rows = << >> THEN 0 ELSE Head(rows).quantity + SumQuantity(Tail(rows))

ActiveCheckouts(id) ==
  SelectSeq(dbMovements,
            LAMBDA m : m.tool_id = id /\ m.type = "checkout" /\ m.status = "active")

ReturnedNoError(c) == call[c].pc = "done" /\ call[c].error = NoError

\* C5: a mutation returns error: null only when no step of it raised an error.
C5_ErrorsReturned ==
  \A c \in Clients : ReturnedNoError(c) => ~call[c].raised

\* C9: the quantities of a tool's active check-outs never add up to more than
\* the tool's stock.
C9_NoOverselling ==
  \A id \in ToolIds : dbTools[id].exists => SumQuantity(ActiveCheckouts(id)) <= dbTools[id].stock

Mutations == {"addTool", "updateTool", "deleteTool", "createCheckout", "createCheckin"}

AwaitedFetches(c) == SelectSeq(fetches[c], LAMBDA f : f.awaited = "call")

\* C3: a mutation that returns error: null has completed exactly one re-fetch
\* of its hook's list (fetchTools for addTool, updateTool and deleteTool,
\* fetchMovements for createCheckout and createCheckin), started after its
\* last write and ended before it returns; a mutation that returns an error
\* has completed none, and none is left in flight.
C3_RefetchAfterMutation ==
  \A c \in Clients : call[c].op \in Mutations =>
    /\ call[c].pc = "done" =>
         /\ call[c].error = NoError => call[c].fetched = 1
         /\ call[c].error # NoError => call[c].fetched = 0
    /\ call[c].pc = "await" =>
         /\ call[c].fetched = 0
         /\ Len(AwaitedFetches(c)) = 1
         /\ AwaitedFetches(c)[1].kind =
              (IF call[c].op \in {"createCheckout", "createCheckin"}
                 THEN "movements" ELSE "tools")
    /\ call[c].pc # "await" => AwaitedFetches(c) = << >>
    /\ call[c].pc \notin {"await", "done"} => call[c].fetched = 0

\* A deleteTool has returned error: null after its fetchTools, and a
\* createCheckout has returned an error.
C3_Witness ==
  /\ \E c \in Clients :
       call[c].op = "deleteTool" /\ call[c].pc = "done" /\ call[c].fetched = 1
  /\ \E c \in Clients :
       call[c].op = "createCheckout" /\ call[c].pc = "done" /\ call[c].error # NoError

\* C10: in sequential use without failures, after every completed operation
\* each tool has available_stock + (the quantities of its active check-outs)
\* = stock.
C10_StockConserved ==
  (\A c \in Clients : Quiet(c)) =>
    \A id \in ToolIds : dbTools[id].exists =>
      dbTools[id].available_stock + SumQuantity(ActiveCheckouts(id)) = dbTools[id].stock

\* A check-out of a positive quantity has been checked in again, and a second
\* check-out is active, with no operation in progress.
C10_Witness ==
  /\ \A c \in Clients : Quiet(c)
  /\ \E i, j \in 1..Len(dbMovements) :
       /\ dbMovements[i].type = "checkout"
       /\ dbMovements[i].status = "returned"
       /\ dbMovements[i].quantity > 0
       /\ dbMovements[j].type = "checkout"
       /\ dbMovements[j].status = "active"
       /\ dbMovements[j].quantity > 0

\* C8: with supabase null no remote call is made: no fetch is issued, no call
\* is left waiting for the backend, no subscription is created and the
\* tables stay as they were; useMovements' fetch leaves movements empty and
\* loading false; createCheckout, createCheckin, signIn and signOut return
\* data null and the error 'Supabase not configured'.
C8_NotConfigured ==
  ~configured =>
    /\ dbTools = NoTools
    /\ dbMovements = << >>
    /\ \A c \in Clients :
         /\ fetches[c] = << >>
         /\ Free(c)
         /\ \A sub \in Subs : notif[c][sub] = 0 /\ ~Subscribed(c, sub)
         /\ mv[c].status # "rendered" => mv[c].movements = << >> /\ ~mv[c].loading
         /\ call[c].op \in {"createCheckout", "createCheckin", "signIn", "signOut"} =>
              /\ call[c].pc = "done"
              /\ call[c].data = 0
              /\ call[c].error = NotConfigured

\* Without a backend one client has mounted useMovements and called
\* createCheckin, another has called signOut.
C8_Witness ==
  /\ ~configured
  /\ \E c \in Clients :
       /\ mv[c].status = "mounted"
       /\ call[c].op = "createCheckin"
       /\ call[c].error = NotConfigured
  /\ \E c \in Clients : call[c].op = "signOut" /\ call[c].error = NotConfigured

HookOf(c, sub) == IF sub = "mv" THEN mv[c] ELSE tl[c]

StartedBy(c) == SubSeq(fetches'[c], Len(fetches[c]) + 1, Len(fetches'[c]))

KindsStartedBy(c) == [j \in 1..Len(StartedBy(c)) |-> StartedBy(c)[j].kind]

\* C4: a change notification that arrives at a mounted hook starts
\* fetchMovements (useMovements), fetchToolsInUse and fetchTools (useTools,
\* movements table) or fetchTools only (useTools, tools table), and nothing
\* else; one that arrives at an unmounted hook starts no fetch.  A hook that
\* is not mounted holds no subscription.
C4_NotificationsRefetch ==
  [][\A c \in Clients : \A sub \in Subs :
       /\ HookOf(c, sub).status # "mounted" => ~Subscribed(c, sub)
       /\ notif'[c][sub] < notif[c][sub] =>
            /\ Len(fetches'[c]) >= Len(fetches[c])
            /\ \A j \in 1..Len(StartedBy(c)) :
                 StartedBy(c)[j].phase = "sent" /\ StartedBy(c)[j].awaited = "none"
            /\ KindsStartedBy(c) =
                 (IF HookOf(c, sub).status # "mounted" THEN << >>
                  ELSE IF sub = "mv" THEN <<"movements">>
                  ELSE IF sub = "tlMov" THEN <<"toolsInUse", "tools">>
                  ELSE <<"tools">>)
            /\ mv' = mv
            /\ tl' = tl]_vars

\* The callback of useTools' movements channel has started fetchToolsInUse,
\* while useMovements is unmounted with a notification still on its way.
C4_Witness ==
  \E c \in Clients :
    /\ tl[c].status = "mounted"
    /\ \E i \in 1..Len(fetches[c]) :
         fetches[c][i].kind = "toolsInUse" /\ fetches[c][i].awaited = "none"
    /\ mv[c].status = "unmounted"
    /\ notif[c]["mv"] > 0

\* The response of a failed fetch of `kind` arrives at client c.
FailedArrival(c, kind) ==
  \E i \in 1..Len(fetches[c]) :
    /\ fetches[c][i].phase = "replied"
    /\ ~fetches[c][i].ok
    /\ fetches[c][i].kind = kind
    /\ fetches'[c] = RemoveAt(fetches[c], i)

\* C6 as stated: a failed fetch leaves tools, toolsInUse and movements as
\* they were.
C6_FailedFetchKeepsLists ==
  [][\A c \in Clients : \A kind \in Kinds : FailedArrival(c, kind) =>
       /\ mv'[c].movements = mv[c].movements
       /\ tl'[c].tools = tl[c].tools
       /\ tl'[c].toolsInUse = tl[c].toolsInUse]_vars

\* C6 as amended: a failed fetchTools or fetchToolsInUse leaves the three
\* lists as they were; a failed fetchMovements leaves tools and toolsInUse as
\* they were and, in a hook that is not unmounted, sets movements to the
\* empty list and loading to false.
C6_FailedFetchAmended ==
  [][\A c \in Clients : \A kind \in Kinds : FailedArrival(c, kind) =>
       /\ tl'[c].tools = tl[c].tools
       /\ tl'[c].toolsInUse = tl[c].toolsInUse
       /\ kind # "movements" => mv'[c].movements = mv[c].movements
       /\ (kind = "movements" /\ mv[c].status # "unmounted") =>
            mv'[c].movements = << >> /\ ~mv'[c].loading
       /\ (kind = "movements" /\ mv[c].status = "unmounted") => mv'[c] = mv[c]]_vars

\* A failed fetchTools and a failed fetchMovements are about to arrive at a
\* client whose tools and movements lists are not empty.
C6_Witness ==
  \E c \in Clients :
    /\ tl[c].tools # << >>
    /\ mv[c].movements # << >>
    /\ mv[c].status = "mounted"
    /\ \E i, j \in 1..Len(fetches[c]) :
         /\ fetches[c][i].phase = "replied" /\ ~fetches[c][i].ok
         /\ fetches[c][i].kind = "tools"
         /\ fetches[c][j].phase = "replied" /\ ~fetches[c][j].ok
         /\ fetches[c][j].kind = "movements"

InFlight(c, kind) == \E i \in 1..Len(fetches[c]) : fetches[c][i].kind = kind

\* C7: once no fetch of a list is in flight and the table is unchanged since
\* the most recently issued fetch of that list read it, the list of a mounted
\* hook equals the table.
C7_LocalMirrorsRemote ==
  \A c \in Clients :
    /\ (mv[c].status = "mounted" /\ ~InFlight(c, "movements") /\ fresh[c]["movements"])
         => mv[c].movements = SelectMovements
    /\ (tl[c].status = "mounted" /\ ~InFlight(c, "tools") /\ fresh[c]["tools"])
         => tl[c].tools = SelectTools

\* C11: available_stock never exceeds stock, for tools created by addTool and
\* changed only by createCheckout and createCheckin with returnQuantity at
\* most the quantity of the movement named, also when a movement is checked
\* in more than once.
C11_AvailableAtMostStock ==
  \A id \in ToolIds : dbTools[id].exists => dbTools[id].available_stock <= dbTools[id].stock

\* Client c's call returns in this step.
Returns(c) == call'[c].pc = "done" /\ call'[c] # call[c]

\* C12: when createCheckout returns error: null, the movements table holds
\* the inserted row (check-out, active, the requested quantity) and the
\* tool's available_stock is the value read minus quantity.
C12_CheckoutBothEffects ==
  [][\A c \in Clients :
       (Returns(c) /\ call'[c].op = "createCheckout" /\ call'[c].error = NoError) =>
         /\ call'[c].data \in 1..Len(dbMovements')
         /\ dbMovements'[call'[c].data] =
              CheckoutRow(call'[c].data, call[c].id, call[c].quantity)
         /\ dbTools'[call[c].id].available_stock =
              call[c].tool.available_stock - call[c].quantity]_vars

\* C13: when createCheckin returns a non-null error, the step leaves both
\* tables as they were and the movement named has the status and the
\* checkin_date the call read at its start.
C13_FailedCheckinChangesNothing ==
  [][\A c \in Clients :
       (Returns(c) /\ call'[c].op = "createCheckin" /\ call'[c].error # NoError) =>
         /\ dbMovements' = dbMovements
         /\ dbTools' = dbTools
         /\ call[c].pc = "ci_insert" =>
              /\ dbMovements'[call[c].id].status = call[c].movement.status
              /\ dbMovements'[call[c].id].checkin_date = call[c].movement.checkin_date]_vars

====
